---- MODULE Spec2Model ----
(***************************************************************************)
(* A model of the PriFi equivocation protection                            *)
(* (prifi-lib/dcnet/equivocation.go), of the trustee connection handler    *)
(* and its round loop (trustee/trusteeServer.go), of the role mapping of   *)
(* the service (sda/services/service.go) and of the DC-net cell codec.     *)
(*                                                                         *)
(* Byte strings are sequences of integers in 0..255.  Scalars are the      *)
(* integers modulo GroupOrder; their wire encoding is ScalarLen bytes,     *)
(* little-endian.  AES-GCM is modelled as an ideal authenticated cipher:   *)
(* the tag binds the key and the ciphertext body, and Open succeeds only   *)
(* on a tag made by Seal under the same key for the same body.             *)
(***************************************************************************)
EXTENDS Integers, Sequences, FiniteSets, TLC

\* ------------------------------------------------------------------ bounds

\* Order of the scalar group (the suite's group order, scaled down).
GroupOrder == 7
\* Width in bytes of a marshalled scalar and of a hash digest (scaled down).
ScalarLen == 2
\* Largest number of clients and of trustees of a session.
MaxClients == 2
MaxTrustees == 2
\* Number of rounds after which a session stops updating its history.
MaxRounds == 2

\* --------------------------------------------------------------- constants

\* Size of the AES-GCM authentication tag.
GcmTagSize == 16
\* Value of one byte position in an encoding.
ByteBase == 256

\* ------------------------------------------------------------ byte strings

Zeros(n) == [k \in 1..n |-> 0]

RECURSIVE LeValue(_)
\* The integer a byte string encodes, little-endian.
LeValue(b) == IF b = <<>> THEN 0 ELSE Head(b) + ByteBase * LeValue(Tail(b))

RECURSIVE Pow(_, _)
Pow(a, n) == IF n = 0 THEN 1 ELSE a * Pow(a, n - 1)

\* The payloads a client may be asked to send in a slot.
Payloads == {<<>>, <<0>>, <<7>>}

\* ----------------------------------------------------------------- scalars

ScalarZero == 0
ScalarOne == 1 % GroupOrder
ScalarAdd(a, b) == (a + b) % GroupOrder
ScalarSub(a, b) == (a - b) % GroupOrder
ScalarMul(a, b) == (a * b) % GroupOrder
\* Scalar.SetBytes: the bytes as an integer, reduced modulo the group order.
ScalarSetBytes(b) == LeValue(b) % GroupOrder
\* Scalar.MarshalBinary: fixed width, little-endian.
ScalarMarshal(s) == [n \in 1..ScalarLen |-> (s \div Pow(ByteBase, n - 1)) % ByteBase]

RECURSIVE SumScalars(_)
\* sum := Zero; for each v: sum = sum.Add(sum, v)
SumScalars(q) == IF q = <<>> THEN ScalarZero
                 ELSE ScalarAdd(SumScalars(SubSeq(q, 1, Len(q) - 1)), q[Len(q)])

\* -------------------------------------------------------------- primitives

RECURSIVE HashAcc(_, _)
HashAcc(acc, b) == IF b = <<>> THEN acc
                   ELSE HashAcc((acc * 33 + Head(b) + 1) % Pow(ByteBase, ScalarLen), Tail(b))
\* sha256.Sum256: a fixed-width digest that is a function of every input byte.
Sha256(b) == LET acc == HashAcc(5381 % Pow(ByteBase, ScalarLen), b)
             IN [n \in 1..ScalarLen |-> (acc \div Pow(ByteBase, n - 1)) % ByteBase]

\* A byte string on the wire: body bytes followed, when tag # NoTag, by a
\* GcmTagSize-byte tag.
NoTag == <<>>
Raw(x) == [body |-> x, tag |-> NoTag]
WireLen(c) == Len(c.body) + (IF c.tag = NoTag THEN 0 ELSE GcmTagSize)

\* The n-th keystream byte of the cipher keyed by key (zero nonce).
KeyStream(key, n) == (LeValue(key) * 31 + 17 * n + 3) % ByteBase
\* The tag of an ideal MAC: it binds key and body.
GcmTag(key, body) == <<key, body>>
\* aesgcm.Seal(nil, nonce, x, nil) with the zero nonce.
GcmSeal(key, x) ==
    LET body == [n \in 1..Len(x) |-> (x[n] + KeyStream(key, n)) % ByteBase]
    IN [body |-> body, tag |-> GcmTag(key, body)]
\* aesgcm.Open(nil, nonce, c, nil): the plaintext, or an error.
GcmOpen(key, c) ==
    IF c.tag # NoTag /\ c.tag = GcmTag(key, c.body)
    THEN [err |-> FALSE,
          message |-> [n \in 1..Len(c.body) |-> (c.body[n] - KeyStream(key, n)) % ByteBase]]
    ELSE [err |-> TRUE, message |-> <<>>]

\* One bit of a wire string flipped: its first body byte, or its tag when the
\* body is empty.
FlipBit(c) ==
    IF Len(c.body) > 0
    THEN [c EXCEPT !.body[1] = IF c.body[1] % 2 = 0 THEN c.body[1] + 1 ELSE c.body[1] - 1]
    ELSE IF c.tag # NoTag
         THEN [c EXCEPT !.tag = <<c.tag[1], Append(c.tag[2], 1)>>]
         ELSE c

\* ------------------------------------------------------------------ state

VARIABLES
    nClients,      \* number of clients of the session
    nTrustees,     \* number of trustees of the session
    round,         \* number of the current round
    phase,         \* "encode", "update" or "crashed" (RelayDecode panicked)
    equiv,         \* party -> its EquivocationProtection {history, randomness}
    slotPayload,   \* the payload x handed to ClientEncryptPayload this round
    cell,          \* client -> what ClientEncryptPayload returned this round
    sigma,         \* trustee -> what TrusteeGetContribution returned this round
    decoded,       \* what RelayDecode returned this round
    transcript,    \* the round transcript the relay hashed into its history
    seen,          \* party -> the data of its UpdateHistory calls, in order
    sealed         \* client -> the keys of its Seal calls, in order

evars == <<nClients, nTrustees, round, phase, equiv, slotPayload, cell,
           sigma, decoded, transcript, seen, sealed>>

VARIABLES
    tpc,           \* where handleConnection stands
    connOpen,      \* whether the handler's connection is open
    hello,         \* the first frame, as read into the buffer
    trusteeState,  \* the TrusteeState made by initiateTrusteeState
    shuffleIn,     \* the shuffle frame read, and the base and keys parsed from it
    written,       \* what the handler wrote to the connection, in order
    steps          \* the protocol steps the handler performed, in order

tvars == <<tpc, connOpen, hello, trusteeState, shuffleIn, written, steps>>

VARIABLES
    spc,           \* where startTrusteeSlave stands
    rpc,           \* where the goroutine trusteeConnRead stands
    peer,          \* the relay's end: "open", "eof" (closed) or "reset"
    pending,       \* chunks the relay sent that the trustee has not read
    received,      \* chunks startTrusteeSlave took from incomingStream
    cells          \* the cell counter i of startTrusteeSlave

lvars == <<spc, rpc, peer, pending, received, cells>>

VARIABLES
    svcPc,         \* where mapIdentities stands
    scanned,       \* the number of roster nodes mapIdentities has been through
    skipped,       \* the number of nodes whose description did not parse
    identityMap,   \* the map m of mapIdentities: address -> PriFiIdentity
    relayIdentity  \* the variable relay of mapIdentities

svars == <<svcPc, scanned, skipped, identityMap, relayIdentity>>

VARIABLES
    dcClients,     \* number of clients of the DC-net
    dcTrustees,    \* number of trustees of the DC-net
    dcRound,       \* the number of the cell being produced, from 0
    dcOwner,       \* the client that owns the slot, 0 when no client does
    dcPayload,     \* the payload of the slot owner
    trusteeCell,   \* trustee -> the cell it sent for this round
    clientCell,    \* client -> the cell it sent for this round
    dcDecoded      \* the XOR of all cells of this round

dvars == <<dcClients, dcTrustees, dcRound, dcOwner, dcPayload, trusteeCell,
           clientCell, dcDecoded>>

vars == <<evars, tvars, lvars, svars, dvars>>
\* What the steps of one component leave alone.
otherThanEquiv == <<tvars, lvars, svars, dvars>>
otherThanTrustee == <<evars, lvars, svars, dvars>>
otherThanRounds == <<evars, hello, trusteeState, shuffleIn, steps, svars, dvars>>
otherThanService == <<evars, tvars, lvars, dvars>>
otherThanDcnet == <<evars, tvars, lvars, svars>>

RelayId == <<"relay", 0>>
ClientId(i) == <<"client", i>>
TrusteeId(j) == <<"trustee", j>>
Clients == 1..nClients
Trustees == 1..nTrustees
Parties == {RelayId} \cup {ClientId(i) : i \in Clients} \cup {TrusteeId(j) : j \in Trustees}

NoCell == [set |-> FALSE, x |-> Raw(<<>>), kappa |-> <<>>, owner |-> FALSE, key |-> <<>>]
NoSigma == <<>>
NoDecode == [set |-> FALSE, message |-> <<>>, panicked |-> FALSE, opened |-> FALSE,
             k_bytes |-> <<>>, input |-> Raw(<<>>)]

\* The pad client i and trustee j share in round r: p_j[j] in the client's
\* call and s_i[i] in the trustee's.
PadBytes(r, i, j) == <<(9 * i + 2 * j + r) % ByteBase, (2 * i * j + r) % ByteBase>>
ClientPads(i) == [j \in Trustees |-> PadBytes(round, i, j)]
TrusteePads(j) == [i \in Clients |-> PadBytes(round, i, j)]

\* ------------------------------------------- EquivocationProtection (code)

\* rand.Read(randomKey): the key of a party's XOF.
XofKey(p) == IF p[1] = "relay" THEN 0
             ELSE IF p[1] = "client" THEN p[2] ELSE MaxClients + 1 + p[2]

\* NewEquivocation with the history left at the zero scalar.
NewEquivocationZeroHistory(p) ==
    [history |-> ScalarZero, randomness |-> [key |-> XofKey(p), pos |-> 0]]

NewEquivocation(p) ==
    [history |-> ScalarOne, randomness |-> [key |-> XofKey(p), pos |-> 0]]

\* randomScalar reading the stream from its start on every call.
randomScalarRewound(e) ==
    [k |-> e.randomness.key % GroupOrder, e |-> e]

\* Scalar.Pick(e.randomness): the next scalar of the XOF's stream; the stream
\* moves on.  Successive outputs of one stream are distinct values.
randomScalar(e) ==
    [k |-> (e.randomness.key + e.randomness.pos) % GroupOrder,
     e |-> [e EXCEPT !.randomness.pos = @ + 1]]

hashInGroup(data) == ScalarSetBytes(data)

\* UpdateHistory hashing the party's own randomness into the history.
UpdateHistoryOfSalted(e, data) ==
    LET historyB == ScalarMarshal(e.history)
        toBeHashed == Zeros(Len(historyB) + Len(data) + e.randomness.key)
        newPayload == Sha256(toBeHashed)
    IN [e EXCEPT !.history = ScalarSetBytes(newPayload)]

UpdateHistoryOf(e, data) ==
    LET historyB == ScalarMarshal(e.history)
        toBeHashed == Zeros(Len(historyB) + Len(data))
        newPayload == Sha256(toBeHashed)
    IN [e EXCEPT !.history = ScalarSetBytes(newPayload)]

\* ClientEncryptPayload marshalling k_i only after k_i.Add(k_i, product) has
\* overwritten it: the payload is sealed under kappa_i.
ClientEncryptPayloadOfLateMarshal(e, slotOwner, x, p_j) ==
    LET q_j == [t \in 1..Len(p_j) |-> hashInGroup(p_j[t])]
        sum == SumScalars(q_j)
        product == ScalarMul(sum, e.history)
        pick == randomScalar(e)
        kappa_i == ScalarAdd(pick.k, product)
        k_i_bytes == ScalarMarshal(kappa_i)
    IN IF ~slotOwner
       THEN [e |-> e, x |-> Raw(x), kappa |-> ScalarMarshal(product), key |-> <<>>]
       ELSE [e |-> pick.e, x |-> GcmSeal(k_i_bytes, x),
             kappa |-> ScalarMarshal(kappa_i), key |-> k_i_bytes]

\* ClientEncryptPayload computing the product with the history as the
\* receiver, e.history.Mul(sum, e.history): the history is overwritten.
ClientEncryptPayloadOfHistoryReceiver(e, slotOwner, x, p_j) ==
    LET q_j == [t \in 1..Len(p_j) |-> hashInGroup(p_j[t])]
        sum == SumScalars(q_j)
        product == ScalarMul(sum, e.history)
        pick == randomScalar(e)
        k_i_bytes == ScalarMarshal(pick.k)
    IN IF ~slotOwner
       THEN [e |-> [e EXCEPT !.history = product], x |-> Raw(x),
             kappa |-> ScalarMarshal(product), key |-> <<>>]
       ELSE [e |-> [pick.e EXCEPT !.history = product], x |-> GcmSeal(k_i_bytes, x),
             kappa |-> ScalarMarshal(ScalarAdd(pick.k, product)), key |-> k_i_bytes]

ClientEncryptPayloadOf(e, slotOwner, x, p_j) ==
    LET q_j == [t \in 1..Len(p_j) |-> hashInGroup(p_j[t])]
        sum == SumScalars(q_j)
        product == ScalarMul(sum, e.history)
        pick == randomScalar(e)
        k_i_bytes == ScalarMarshal(pick.k)
    IN IF ~slotOwner
       THEN [e |-> e, x |-> Raw(x), kappa |-> ScalarMarshal(product), key |-> <<>>]
       ELSE [e |-> pick.e, x |-> GcmSeal(k_i_bytes, x),
             kappa |-> ScalarMarshal(ScalarAdd(pick.k, product)), key |-> k_i_bytes]

\* TrusteeGetContribution multiplying the sum by the history, as the
\* clients do.
TrusteeGetContributionOfTimesHistory(e, s_i) ==
    LET q_i == [c \in 1..Len(s_i) |-> hashInGroup(s_i[c])]
        sum == SumScalars(q_i)
    IN ScalarMarshal(ScalarMul(sum, e.history))

TrusteeGetContributionOf(e, s_i) ==
    LET q_i == [c \in 1..Len(s_i) |-> hashInGroup(s_i[c])]
        sum == SumScalars(q_i)
    IN ScalarMarshal(sum)

\* The relay's key with the trustees' sum not multiplied by the history.
RelayKeyNoHistory(e, trusteesContributions, clientsContributions) ==
    LET trustee_kappa_j == [k \in 1..Len(trusteesContributions) |->
                               ScalarSetBytes(trusteesContributions[k])]
        client_kappa_i == [k \in 1..Len(clientsContributions) |->
                              ScalarSetBytes(clientsContributions[k])]
    IN ScalarSub(SumScalars(client_kappa_i), SumScalars(trustee_kappa_j))

\* RelayDecode, lines 165-189: k_i = sumClients - sumTrustees * history.
RelayKey(e, trusteesContributions, clientsContributions) ==
    LET trustee_kappa_j == [k \in 1..Len(trusteesContributions) |->
                               ScalarSetBytes(trusteesContributions[k])]
        client_kappa_i == [k \in 1..Len(clientsContributions) |->
                              ScalarSetBytes(clientsContributions[k])]
        sumTrustees == SumScalars(trustee_kappa_j)
        sumClients == SumScalars(client_kappa_i)
        prod == ScalarMul(sumTrustees, e.history)
    IN ScalarSub(sumClients, prod)

RelayDecodeOf(e, encryptedPayload, trusteesContributions, clientsContributions) ==
    LET k_i == RelayKey(e, trusteesContributions, clientsContributions)
        k_bytes == ScalarMarshal(k_i)
        open == GcmOpen(k_bytes, encryptedPayload)
        n == WireLen(encryptedPayload) - GcmTagSize
    IN IF Len(k_bytes) = 0
       THEN [message |-> <<>>, panicked |-> FALSE, opened |-> FALSE, k_bytes |-> k_bytes]
       ELSE IF ~open.err
       THEN [message |-> open.message, panicked |-> FALSE, opened |-> TRUE,
             k_bytes |-> k_bytes]
       ELSE IF n < 0
       THEN [message |-> <<>>, panicked |-> TRUE, opened |-> FALSE, k_bytes |-> k_bytes]
       ELSE [message |-> Zeros(n), panicked |-> FALSE, opened |-> FALSE,
             k_bytes |-> k_bytes]

\* ---------------------------------------------------------------- session

\* The order in which the parties of a round are served: the relay, the
\* clients by index, the trustees by index.
Rank(p) == IF p[1] = "relay" THEN 0
           ELSE IF p[1] = "client" THEN p[2] ELSE MaxClients + p[2]
Before(q, p) == Rank(q) < Rank(p)

\* A session: NewEquivocation at every party, then round 0.
EquivInit ==
    /\ nClients \in 1..MaxClients
    /\ nTrustees \in 1..MaxTrustees
    /\ round = 0
    /\ phase = "encode"
    /\ equiv = [p \in Parties |-> NewEquivocation(p)]
    /\ slotPayload \in Payloads
    /\ cell = [i \in Clients |-> NoCell]
    /\ sigma = [j \in Trustees |-> NoSigma]
    /\ decoded = NoDecode
    /\ transcript = <<>>
    /\ seen = [p \in Parties |-> <<>>]
    /\ sealed = [i \in Clients |-> <<>>]

\* Client i calls ClientEncryptPayload(slotOwner, slotPayload, pads).
ClientEncryptPayload(i, slotOwner) ==
    /\ phase = "encode"
    /\ ~cell[i].set
    /\ \A h \in 1..(i - 1) : cell[h].set
    /\ LET r == ClientEncryptPayloadOf(equiv[ClientId(i)], slotOwner, slotPayload,
                                       ClientPads(i))
       IN /\ cell' = [cell EXCEPT ![i] = [set |-> TRUE, x |-> r.x, kappa |-> r.kappa,
                                          owner |-> slotOwner, key |-> r.key]]
          /\ equiv' = [equiv EXCEPT ![ClientId(i)] = r.e]
          /\ sealed' = IF slotOwner THEN [sealed EXCEPT ![i] = Append(@, r.key)]
                       ELSE sealed
    /\ UNCHANGED <<nClients, nTrustees, round, phase, slotPayload, sigma,
                   decoded, transcript, seen>>
    /\ UNCHANGED otherThanEquiv

\* Trustee j calls TrusteeGetContribution(pads).
TrusteeGetContribution(j) ==
    /\ phase = "encode"
    /\ sigma[j] = NoSigma
    /\ \A i \in Clients : cell[i].set
    /\ \A h \in 1..(j - 1) : sigma[h] # NoSigma
    /\ sigma' = [sigma EXCEPT ![j] =
                    TrusteeGetContributionOf(equiv[TrusteeId(j)], TrusteePads(j))]
    /\ UNCHANGED <<nClients, nTrustees, round, phase, equiv, slotPayload,
                   cell, decoded, transcript, seen, sealed>>
    /\ UNCHANGED otherThanEquiv

AllContributed == (\A i \in Clients : cell[i].set) /\ (\A j \in Trustees : sigma[j] # NoSigma)

\* The wire strings the relay may hold as the round's payload: what a client
\* sent, as sent or with one bit flipped.
ReceivedPayloads == {cell[i].x : i \in Clients} \cup {FlipBit(cell[i].x) : i \in Clients}

\* The relay, holding every contribution, calls RelayDecode.
RelayDecode(encryptedPayload) ==
    /\ phase = "encode"
    /\ AllContributed
    /\ LET r == RelayDecodeOf(equiv[RelayId], encryptedPayload,
                              [j \in Trustees |-> sigma[j]],
                              [i \in Clients |-> cell[i].kappa])
       IN /\ decoded' = [set |-> TRUE, message |-> r.message, panicked |-> r.panicked,
                         opened |-> r.opened, k_bytes |-> r.k_bytes,
                         input |-> encryptedPayload]
          /\ phase' = IF r.panicked THEN "crashed" ELSE "update"
    /\ UNCHANGED <<nClients, nTrustees, round, equiv, slotPayload, cell,
                   sigma, transcript, seen, sealed>>
    /\ UNCHANGED otherThanEquiv

\* The relay hashes the round's transcript, the decoded cell, into its
\* history and drops the round's contributions.
RelayUpdateHistory ==
    /\ phase = "update"
    /\ round < MaxRounds
    /\ Len(seen[RelayId]) = round
    /\ equiv' = [equiv EXCEPT ![RelayId] = UpdateHistoryOf(@, decoded.message)]
    /\ seen' = [seen EXCEPT ![RelayId] = Append(@, decoded.message)]
    /\ transcript' = decoded.message
    /\ cell' = [i \in Clients |-> NoCell]
    /\ sigma' = [j \in Trustees |-> NoSigma]
    /\ decoded' = NoDecode
    /\ UNCHANGED <<nClients, nTrustees, round, phase, slotPayload, sealed>>
    /\ UNCHANGED otherThanEquiv

\* Party p, a client or a trustee, calls UpdateHistory(data) after the relay
\* did; the last call of a round opens the next round.
UpdateHistory(p, data) ==
    /\ phase = "update"
    /\ p # RelayId
    /\ Len(seen[RelayId]) = round + 1
    /\ Len(seen[p]) = round
    /\ \A q \in Parties : Before(q, p) => Len(seen[q]) = round + 1
    /\ equiv' = [equiv EXCEPT ![p] = UpdateHistoryOf(@, data)]
    /\ seen' = [seen EXCEPT ![p] = Append(@, data)]
    /\ IF \A q \in Parties \ {p} : Len(seen[q]) = round + 1
       THEN /\ round' = round + 1
            /\ phase' = "encode"
            /\ slotPayload' \in Payloads
       ELSE UNCHANGED <<round, phase, slotPayload>>
    /\ UNCHANGED <<nClients, nTrustees, cell, sigma, decoded, transcript,
                   sealed>>
    /\ UNCHANGED otherThanEquiv

\* ------------------------------------------------- trustee server (state)

\* The protocol version of this build.
LLD_PROTOCOL_VERSION == 1
\* Length of the placeholder shuffle proof.
ProofLen == 50
\* The Schnorr group of quadratic residues modulo p = 2q + 1, generated by g.
SchnorrQ == 11
SchnorrR == 2
SchnorrG == 4
SchnorrP == SchnorrR * SchnorrQ + 1
\* Handshakes announce versions 0..MaxVersion, up to MaxHelloClients clients
\* and trustee indices 0..MaxTrusteeId; the relay delivers up to
\* MaxHelloClients + 1 client keys.
MaxVersion == 2
MaxHelloClients == 2
MaxTrusteeId == 1

RECURSIVE ModExp(_, _)
\* Point.Mul(base, secret) in the Schnorr group.
ModExp(b, e) == IF e = 0 THEN 1 ELSE (b * ModExp(b, e - 1)) % SchnorrP

RECURSIVE Itoa(_)
\* strconv.Itoa of a non-negative integer, as ASCII bytes.
Itoa(n) == IF n < 10 THEN <<48 + n>> ELSE Append(Itoa(n \div 10), 48 + (n % 10))

\* "Trustee-" + strconv.Itoa(trusteeId), as ASCII bytes.
TrusteeName(trusteeId) == <<84, 114, 117, 115, 116, 101, 101, 45>> \o Itoa(trusteeId)

\* Secret().Pick(Cipher(name)): a secret that is a function of the name.
SecretPick(name) == HashAcc(5381, name) % SchnorrQ

NoHello == [version |-> 0, cellSize |-> 0, nClients |-> 0, nTrustees |-> 0,
            trusteeId |-> 0]
NoPoint == 0
NoTrusteeState == [set |-> FALSE, Name |-> <<>>, TrusteeId |-> 0, nClients |-> 0,
                   nTrustees |-> 0, PayloadLength |-> 0, privateKey |-> 0,
                   PublicKey |-> NoPoint, ClientPublicKeys |-> <<>>,
                   sharedSecrets |-> <<>>]

\* A trustee whose announced public key is not the key of its private key.
initiateTrusteeStateOtherKey(trusteeId, nC, nT, payloadLength) ==
    LET name == TrusteeName(trusteeId)
        priv == SecretPick(name)
    IN [set |-> TRUE, Name |-> name, TrusteeId |-> trusteeId, nClients |-> nC,
        nTrustees |-> nT, PayloadLength |-> payloadLength, privateKey |-> priv,
        PublicKey |-> ModExp(SchnorrG, priv + 1),
        ClientPublicKeys |-> [i \in 1..nC |-> NoPoint],
        sharedSecrets |-> [i \in 1..nC |-> NoPoint]]

\* A trustee whose cipher is seeded with the number of clients, not with
\* its index.
initiateTrusteeStateSeededByClients(trusteeId, nC, nT, payloadLength) ==
    LET name == TrusteeName(trusteeId)
        priv == SecretPick(TrusteeName(nC))
    IN [set |-> TRUE, Name |-> name, TrusteeId |-> trusteeId, nClients |-> nC,
        nTrustees |-> nT, PayloadLength |-> payloadLength, privateKey |-> priv,
        PublicKey |-> ModExp(SchnorrG, priv),
        ClientPublicKeys |-> [i \in 1..nC |-> NoPoint],
        sharedSecrets |-> [i \in 1..nC |-> NoPoint]]

initiateTrusteeState(trusteeId, nC, nT, payloadLength) ==
    LET name == TrusteeName(trusteeId)
        priv == SecretPick(name)
    IN [set |-> TRUE, Name |-> name, TrusteeId |-> trusteeId, nClients |-> nC,
        nTrustees |-> nT, PayloadLength |-> payloadLength, privateKey |-> priv,
        PublicKey |-> ModExp(SchnorrG, priv),
        ClientPublicKeys |-> [i \in 1..nC |-> NoPoint],
        sharedSecrets |-> [i \in 1..nC |-> NoPoint]]

\* The first frames a peer may send.
Hellos == [version : 0..MaxVersion, cellSize : {4}, nClients : 0..MaxHelloClients,
           nTrustees : {1}, trusteeId : 0..MaxTrusteeId]
\* The client public keys a relay may forward.
ClientKeys == {ModExp(SchnorrG, 1), ModExp(SchnorrG, 2)}
RECURSIVE SeqsUpTo(_, _)
SeqsUpTo(S, n) == IF n = 0 THEN {<<>>}
                  ELSE LET shorter == SeqsUpTo(S, n - 1)
                       IN shorter \cup {Append(q, x) : q \in shorter, x \in S}

\* ------------------------------------------------- frames of the handshake

\* Size of the handler's read buffer.
BufferSize == 1024
\* Width of a marshalled point: the bytes of the modulus SchnorrP.
PointLen == 1

RECURSIVE BeValue(_)
\* binary.BigEndian.Uint32: the number whose big-endian bytes are b.
BeValue(b) == IF b = <<>> THEN 0
              ELSE BeValue(SubSeq(b, 1, Len(b) - 1)) * ByteBase + b[Len(b)]

\* binary.BigEndian.PutUint32: the four big-endian bytes of n.
PutUint32(n) == [k \in 1..4 |-> (n \div Pow(ByteBase, 4 - k)) % ByteBase]

\* The read buffer is kept as the prefix that was ever written; the bytes
\* behind it, up to BufferSize, are zero.
\* conn.Read(buffer): the data lands over the older content of the buffer.
ReadInto(buffer, data) == data \o SubSeq(buffer, Len(data) + 1, Len(buffer))
\* buffer[k], counted from 0.
BufferAt(buffer, k) == IF k < Len(buffer) THEN buffer[k + 1] ELSE 0
\* buffer[from:to].
Slice(buffer, from, to) == [k \in 1..(to - from) |-> BufferAt(buffer, from + k - 1)]
\* Whether the slice expression buffer[from:to] is in range; it panics
\* otherwise.
InBuffer(from, to) == 0 <= from /\ from <= to /\ to <= BufferSize

\* The first frame as it lies in the buffer: five big-endian u32.
HelloBytes(h) == PutUint32(h.version) \o PutUint32(h.cellSize) \o PutUint32(h.nClients)
                 \o PutUint32(h.nTrustees) \o PutUint32(h.trusteeId)

\* The elements of the Schnorr group.
Points == {ModExp(SchnorrG, e) : e \in 0..(SchnorrQ - 1)}
\* Point.MarshalBinary: PointLen bytes, big-endian.
MarshalPoint(point) ==
    [k \in 1..PointLen |-> (point \div Pow(ByteBase, PointLen - k)) % ByteBase]
\* Point.UnmarshalBinary: fails on bytes that encode no group element.
UnmarshalPoint(b) ==
    IF Len(b) = PointLen /\ BeValue(b) \in Points
    THEN [err |-> FALSE, point |-> BeValue(b)]
    ELSE [err |-> TRUE, point |-> NoPoint]

RECURSIVE MarshalPublicKeyArrayToByteArray(_)
\* The point encodings of the keys, concatenated.
MarshalPublicKeyArrayToByteArray(keys) ==
    IF keys = <<>> THEN <<>>
    ELSE MarshalPoint(Head(keys)) \o MarshalPublicKeyArrayToByteArray(Tail(keys))

RECURSIVE UnMarshalPublicKeyArrayFromByteArray(_)
\* The keys of concatenated point encodings; fails when a chunk is no point.
UnMarshalPublicKeyArrayFromByteArray(b) ==
    IF b = <<>> THEN [err |-> FALSE, keys |-> <<>>]
    ELSE IF Len(b) < PointLen THEN [err |-> TRUE, keys |-> <<>>]
    ELSE LET first == UnmarshalPoint(SubSeq(b, 1, PointLen))
             rest == UnMarshalPublicKeyArrayFromByteArray(SubSeq(b, PointLen + 1, Len(b)))
         IN IF first.err \/ rest.err THEN [err |-> TRUE, keys |-> <<>>]
            ELSE [err |-> FALSE, keys |-> <<first.point>> \o rest.keys]

\* prifinet.TellPublicKey: [u32 version][u32 key_len][key_bytes].
TellPublicKey(version, publicKey) ==
    PutUint32(version) \o PutUint32(PointLen) \o MarshalPoint(publicKey)

NoParse == [panicked |-> TRUE, baseSize |-> 0, keysSize |-> 0, baseBytes |-> <<>>,
            keysBytes |-> <<>>]
\* The offsets at which the incoming shuffle frame is cut (lines 169-176).
ParseShuffleFrame(buffer) ==
    LET baseSize == BeValue(Slice(buffer, 0, 4))
    IN IF ~InBuffer(4 + baseSize, 8 + baseSize)
       THEN [NoParse EXCEPT !.baseSize = baseSize]
       ELSE LET keysSize == BeValue(Slice(buffer, 4 + baseSize, 8 + baseSize))
            IN IF ~InBuffer(8 + baseSize, 8 + baseSize + keysSize)
               THEN [NoParse EXCEPT !.baseSize = baseSize, !.keysSize = keysSize]
               ELSE [panicked |-> FALSE, baseSize |-> baseSize, keysSize |-> keysSize,
                     baseBytes |-> Slice(buffer, 4, 4 + baseSize),
                     keysBytes |-> Slice(buffer, 8 + baseSize, 8 + baseSize + keysSize)]

\* copy(message[from:from+len(bytes)], bytes).
PutAt(message, from, bytes) ==
    [k \in 1..Len(message) |->
        IF k > from /\ k <= from + Len(bytes) THEN bytes[k - from] ELSE message[k]]

\* A frame whose keys length field is written right behind the base length.
ComposeShuffleMessageLengthsFirst(base2Bytes, ephPublicKeys2Bytes, proof) ==
    PutUint32(Len(base2Bytes)) \o PutUint32(Len(ephPublicKeys2Bytes))
        \o base2Bytes \o ephPublicKeys2Bytes \o PutUint32(Len(proof)) \o proof

\* The outgoing shuffle message is composed (lines 201-217).
ComposeShuffleMessage(base2Bytes, ephPublicKeys2Bytes, proof) ==
    LET lb == Len(base2Bytes)
        lk == Len(ephPublicKeys2Bytes)
        lp == Len(proof)
        m0 == Zeros(12 + lb + lk + lp)
        m1 == PutAt(m0, 0, PutUint32(lb))
        m2 == PutAt(m1, 4 + lb, PutUint32(lk))
        m3 == PutAt(m2, 8 + lb + lk, PutUint32(lp))
        m4 == PutAt(m3, 4, base2Bytes)
        m5 == PutAt(m4, 8 + lb, ephPublicKeys2Bytes)
    IN PutAt(m5, 12 + lb + lk, proof)

\* A shuffle that loses the last key.
ShuffleOfDropsKey(base, ephPublicKeys) ==
    [base2 |-> base,
     ephPublicKeys2 |-> SubSeq(ephPublicKeys, 1, Len(ephPublicKeys) - 1),
     proof |-> Zeros(ProofLen)]

\* "To some shuffly-stuff" (lines 188-192): the base and the keys as they
\* came, and a proof of ProofLen zero bytes.
ShuffleOf(base, ephPublicKeys) ==
    [base2 |-> base, ephPublicKeys2 |-> ephPublicKeys, proof |-> Zeros(ProofLen)]

NoShuffle == [set |-> FALSE, frame |-> <<>>, base |-> NoPoint, keys |-> <<>>]

\* The shuffle frame a relay sends for a base and keys: the two
\* length-prefixed fields, and an empty proof.
ShuffleFrame(base, ephPublicKeys) ==
    PutUint32(PointLen) \o MarshalPoint(base)
        \o PutUint32(PointLen * Len(ephPublicKeys))
        \o MarshalPublicKeyArrayToByteArray(ephPublicKeys)
        \o PutUint32(0)

\* The shuffle frames a relay may send: well-formed ones, and frames whose
\* fields are cut short, carry no point, or announce lengths up to and
\* beyond the end of the buffer.
ShuffleFrames ==
    {ShuffleFrame(b, k) : b \in ClientKeys, k \in SeqsUpTo(ClientKeys, MaxHelloClients)}
    \cup {PutUint32(1) \o <<0>> \o PutUint32(0), PutUint32(1) \o <<4>>,
          PutUint32(1) \o <<4>> \o PutUint32(1) \o <<5>>}
    \cup {PutUint32(n) \o <<4>> : n \in {BufferSize - 8, BufferSize - 7}}
    \cup {PutUint32(1) \o <<4>> \o PutUint32(n) \o <<4>> :
             n \in {BufferSize - 9, BufferSize - 8}}


TrusteeInit ==
    /\ tpc = "ReadHello"
    /\ connOpen = TRUE
    /\ hello = NoHello
    /\ trusteeState = NoTrusteeState
    /\ shuffleIn = NoShuffle
    /\ written = <<>>
    /\ steps = <<>>

\* handleConnection returns or panics: the deferred conn.Close() runs.
Leave(how) ==
    /\ tpc' = how
    /\ connOpen' = FALSE

\* conn.Read(buffer) of the first frame (lines 100-107).
ReadHello(ok, h) ==
    /\ tpc = "ReadHello"
    /\ IF ok
       THEN /\ hello' = h
            /\ tpc' = "CheckVersion"
            /\ UNCHANGED connOpen
       ELSE /\ Leave("Returned")
            /\ UNCHANGED hello
    /\ UNCHANGED <<trusteeState, shuffleIn, written, steps>>
    /\ UNCHANGED otherThanTrustee

\* A version check that lets newer peers through.
VersionAtLeast(version) == version >= LLD_PROTOCOL_VERSION

\* A version check without its return: the handler goes on whatever the
\* version.
CheckVersionNoReturn ==
    /\ tpc = "CheckVersion"
    /\ tpc' = "SendPubKey"
    /\ UNCHANGED <<connOpen, hello, trusteeState, shuffleIn, written, steps>>
    /\ UNCHANGED otherThanTrustee

\* The protocol version is checked against ours (lines 109-115).
VersionMatches(version) == version = LLD_PROTOCOL_VERSION

CheckVersion ==
    /\ tpc = "CheckVersion"
    /\ IF VersionMatches(hello.version)
       THEN /\ tpc' = "SendPubKey"
            /\ UNCHANGED connOpen
       ELSE Leave("Returned")
    /\ UNCHANGED <<hello, trusteeState, shuffleIn, written, steps>>
    /\ UNCHANGED otherThanTrustee

\* initiateTrusteeState and TellPublicKey (lines 117-127).
SendPubKey ==
    /\ tpc = "SendPubKey"
    /\ LET st == initiateTrusteeState(hello.trusteeId, hello.nClients, hello.nTrustees,
                                      hello.cellSize)
       IN /\ trusteeState' = st
          /\ written' = Append(written,
                 [kind |-> "PublicKey",
                  bytes |-> TellPublicKey(LLD_PROTOCOL_VERSION, st.PublicKey)])
    /\ steps' = Append(steps, "SendPubKey")
    /\ tpc' = "RecvClientPubKeys"
    /\ UNCHANGED <<connOpen, hello, shuffleIn>>
    /\ UNCHANGED otherThanTrustee

\* A trustee that raises the group's base, not the client's key, to its
\* private key.
StoreClientKeysFromBase(st, clientsPublicKeys) ==
    [panicked |-> Len(clientsPublicKeys) > st.nClients,
     state |-> [st EXCEPT
        !.ClientPublicKeys = [i \in 1..st.nClients |->
            IF i <= Len(clientsPublicKeys) THEN clientsPublicKeys[i] ELSE NoPoint],
        !.sharedSecrets = [i \in 1..st.nClients |->
            IF i <= Len(clientsPublicKeys) THEN ModExp(SchnorrG, st.privateKey)
            ELSE NoPoint]]]

\* The client keys are stored and the shared secrets computed (lines
\* 131-135).  A key beyond nClients indexes out of range and panics.
StoreClientKeys(st, clientsPublicKeys) ==
    [panicked |-> Len(clientsPublicKeys) > st.nClients,
     state |-> [st EXCEPT
        !.ClientPublicKeys = [i \in 1..st.nClients |->
            IF i <= Len(clientsPublicKeys) THEN clientsPublicKeys[i] ELSE NoPoint],
        !.sharedSecrets = [i \in 1..st.nClients |->
            IF i <= Len(clientsPublicKeys)
            THEN ModExp(clientsPublicKeys[i], st.privateKey)
            ELSE NoPoint]]]

\* "check that we got all keys" (lines 137-142).
AllKeysPresent(st) == \A i \in 1..st.nClients : st.ClientPublicKeys[i] # NoPoint

\* The client keys are read, the shared secrets computed and the keys
\* counted (lines 129-142).
RecvClientPubKeys(clientsPublicKeys) ==
    /\ tpc = "RecvClientPubKeys"
    /\ steps' = Append(steps, "RecvClientPubKeys")
    /\ LET stored == StoreClientKeys(trusteeState, clientsPublicKeys)
       IN /\ trusteeState' = stored.state
          /\ IF stored.panicked \/ ~AllKeysPresent(stored.state)
             THEN Leave("Panicked")
             ELSE /\ tpc' = "ReadShuffle"
                  /\ UNCHANGED connOpen
    /\ UNCHANGED <<hello, shuffleIn, written>>
    /\ UNCHANGED otherThanTrustee

\* The shuffle frame is read and cut into the base and the keys (lines
\* 160-186).  A failed read, an offset beyond the buffer and bytes that
\* encode no point panic.
ReadShuffle(ok, frame) ==
    /\ tpc = "ReadShuffle"
    /\ IF ~ok
       THEN /\ Leave("Panicked")
            /\ UNCHANGED <<shuffleIn, steps>>
       ELSE LET parsed == ParseShuffleFrame(ReadInto(HelloBytes(hello), frame))
                base == UnmarshalPoint(parsed.baseBytes)
                ephPublicKeys == UnMarshalPublicKeyArrayFromByteArray(parsed.keysBytes)
            IN /\ steps' = Append(steps, "ReadShuffle")
               /\ IF parsed.panicked \/ base.err \/ ephPublicKeys.err
                  THEN /\ Leave("Panicked")
                       /\ shuffleIn' = [NoShuffle EXCEPT !.frame = frame]
                  ELSE /\ tpc' = "WriteShuffle"
                       /\ shuffleIn' = [set |-> TRUE, frame |-> frame,
                                        base |-> base.point, keys |-> ephPublicKeys.keys]
                       /\ UNCHANGED connOpen
    /\ UNCHANGED <<hello, trusteeState, written>>
    /\ UNCHANGED otherThanTrustee

\* The shuffle is made, marshalled, framed and written back (lines 188-228).
WriteShuffle(ok) ==
    /\ tpc = "WriteShuffle"
    /\ IF ok
       THEN LET shuffled == ShuffleOf(shuffleIn.base, shuffleIn.keys)
                message == ComposeShuffleMessage(
                               MarshalPoint(shuffled.base2),
                               MarshalPublicKeyArrayToByteArray(shuffled.ephPublicKeys2),
                               shuffled.proof)
            IN /\ written' = Append(written, [kind |-> "Shuffle", bytes |-> message])
               /\ steps' = Append(steps, "WriteShuffle")
               /\ tpc' = "Sleep"
               /\ UNCHANGED connOpen
       ELSE /\ Leave("Panicked")
            /\ UNCHANGED <<written, steps>>
    /\ UNCHANGED <<hello, trusteeState, shuffleIn>>
    /\ UNCHANGED otherThanTrustee

\* "all done, waiting forever" (lines 230-233).
Sleep ==
    /\ tpc = "Sleep"
    /\ UNCHANGED vars

\* ------------------------------------------------------- round processing
\* startTrusteeSlave and its reader goroutine trusteeConnRead, from the call
\* at line 236 of handleConnection.

\* startTrusteeSlave writes up to MaxCells cells; the relay sends up to
\* MaxChunks chunks of data.
MaxCells == 2
MaxChunks == 1
\* suite.KeyLen(): the length of an AES-128 key.
KeyLen == 16

RECURSIVE XorInt(_, _)
\* a XOR b.
XorInt(a, b) == IF a = 0 THEN b
                ELSE IF b = 0 THEN a
                ELSE ((a + b) % 2) + 2 * XorInt(a \div 2, b \div 2)
\* The XOR of two byte strings of one length.
XorBytes(a, b) == [k \in 1..Len(a) |-> XorInt(a[k], b[k])]

\* qrsuite.Stream(key): AES in counter mode under the zero IV.  The key
\* stream is a function of the key and of the position; a key that is not an
\* AES key panics.
Stream(key) == [panicked |-> Len(key) \notin {16, 24, 32}, key |-> key, position |-> 0]
\* The n-th byte of the key stream of key.
CtrKeyStream(key, n) == (HashAcc(7, key) * 29 + 13 * n + 11) % ByteBase
\* cipher.Stream.XORKeyStream over n zero bytes: the next n bytes of the
\* key stream.
NextBytes(stream, n) == [k \in 1..n |-> CtrKeyStream(stream.key, stream.position + k)]
Advance(stream, n) == [stream EXCEPT !.position = stream.position + n]

\* The seed of the stream two parties share: the encoding of their shared
\* secret, left-padded to the key length.
StreamSeed(sharedSecret) == Zeros(KeyLen - PointLen) \o MarshalPoint(sharedSecret)

RECURSIVE XorAll(_, _)
\* The XOR of the byte strings q[1..Len(q)], each n bytes long.
XorAll(q, n) == IF q = <<>> THEN Zeros(n)
                ELSE XorBytes(Head(q), XorAll(Tail(q), n))

\* CellCoder.TrusteeEncode(PayloadLength) for cell number cellNo (from 0):
\* the XOR of the next PayloadLength bytes of the stream shared with each
\* client.
TrusteeEncode(sharedSecrets, payloadLength, cellNo) ==
    XorAll([i \in 1..Len(sharedSecrets) |->
               NextBytes(Advance(Stream(StreamSeed(sharedSecrets[i])),
                                 cellNo * payloadLength), payloadLength)],
           payloadLength)

SlaveIdle ==
    /\ spc = "NotStarted"
    /\ rpc = "NotStarted"
    /\ peer = "open"
    /\ pending = 0
    /\ received = 0
    /\ cells = 0

\* The handler's state when a setup with first frame h, client keys keys and
\* shuffle frame frame is through, at the call of startTrusteeSlave.
SetupDone(h, keys, frame) ==
    LET st == StoreClientKeys(initiateTrusteeState(h.trusteeId, h.nClients, h.nTrustees,
                                                   h.cellSize), keys).state
        parsed == ParseShuffleFrame(ReadInto(HelloBytes(h), frame))
        base == UnmarshalPoint(parsed.baseBytes).point
        ephPublicKeys == UnMarshalPublicKeyArrayFromByteArray(parsed.keysBytes).keys
        shuffled == ShuffleOf(base, ephPublicKeys)
    IN /\ tpc = "Slave"
       /\ connOpen = TRUE
       /\ hello = h
       /\ trusteeState = st
       /\ shuffleIn = [set |-> TRUE, frame |-> frame, base |-> base, keys |-> ephPublicKeys]
       /\ written = <<[kind |-> "PublicKey",
                       bytes |-> TellPublicKey(LLD_PROTOCOL_VERSION, st.PublicKey)],
                      [kind |-> "Shuffle",
                       bytes |-> ComposeShuffleMessage(
                                    MarshalPoint(shuffled.base2),
                                    MarshalPublicKeyArrayToByteArray(shuffled.ephPublicKeys2),
                                    shuffled.proof)]>>
       /\ steps = <<"SendPubKey", "RecvClientPubKeys", "ReadShuffle", "WriteShuffle">>

\* startTrusteeSlave starts the reader goroutine and enters its loop (lines
\* 243-251).
StartSlave ==
    /\ tpc = "Slave"
    /\ spc = "NotStarted"
    /\ spc' = "Select"
    /\ rpc' = "Read"
    /\ UNCHANGED <<peer, pending, received, cells>>
    /\ UNCHANGED <<tpc, connOpen, written>>
    /\ UNCHANGED otherThanRounds

\* The relay sends a chunk of data.
PeerSends ==
    /\ peer = "open"
    /\ pending + received + (IF rpc = "Send" THEN 1 ELSE 0) < MaxChunks
    /\ pending' = pending + 1
    /\ UNCHANGED <<spc, rpc, peer, received, cells>>
    /\ UNCHANGED <<tpc, connOpen, written>>
    /\ UNCHANGED otherThanRounds

\* The relay closes its end ("eof") or the connection breaks ("reset").
PeerCloses(how) ==
    /\ peer = "open"
    /\ peer' = how
    /\ UNCHANGED <<spc, rpc, pending, received, cells>>
    /\ UNCHANGED <<tpc, connOpen, written>>
    /\ UNCHANGED otherThanRounds

\* state.activeConnection.Read(buf) returns and its result is handled (lines
\* 289-304): an error other than EOF closes the connection and ends the
\* reader; EOF is printed; data goes to incomingStream.  The read blocks
\* while the connection is open and idle.
ConnRead ==
    /\ rpc = "Read"
    /\ IF ~connOpen \/ peer = "reset"
       THEN /\ rpc' = "Returned"
            /\ connOpen' = FALSE
            /\ UNCHANGED pending
       ELSE IF pending > 0
       THEN /\ rpc' = "Send"
            /\ pending' = pending - 1
            /\ UNCHANGED connOpen
       ELSE /\ peer = "eof"
            /\ rpc' = "ReadEOF"
            /\ UNCHANGED <<connOpen, pending>>
    /\ UNCHANGED <<spc, peer, received, cells>>
    /\ UNCHANGED <<tpc, written>>
    /\ UNCHANGED otherThanRounds

\* After "[read EOF, trustee ...]" the reader's loop goes on (lines 295-296,
\* 288).
ReadAgain ==
    /\ rpc = "ReadEOF"
    /\ rpc' = "Read"
    /\ UNCHANGED <<spc, peer, pending, received, cells>>
    /\ UNCHANGED <<tpc, connOpen, written>>
    /\ UNCHANGED otherThanRounds

\* case readByte := <-incomingStream (lines 253-254), the other side of the
\* reader's incomingStream <- buf (line 303): the channel is unbuffered.
SlaveReceive ==
    /\ spc = "Select"
    /\ rpc = "Send"
    /\ rpc' = "Read"
    /\ received' = received + 1
    /\ UNCHANGED <<spc, peer, pending, cells>>
    /\ UNCHANGED <<tpc, connOpen, written>>
    /\ UNCHANGED otherThanRounds

\* default: a cell is produced and written (lines 262-279); select takes
\* this branch when no channel is ready.  Nothing in the program sends on
\* closedConnections, so the branch of lines 256-260 is never ready.  The
\* write fails on a closed or broken connection, and may fail once the relay
\* has closed its end; a failed write ends the loop.
SlaveEncode(ok) ==
    /\ spc = "Select"
    /\ rpc # "Send"
    /\ ok => (connOpen /\ peer # "reset" /\ cells < MaxCells)
    /\ ~ok => (~connOpen \/ peer # "open")
    /\ cells' = cells + 1
    /\ IF ok
       THEN /\ written' = Append(written,
                   [kind |-> "Cell",
                    bytes |-> TrusteeEncode(trusteeState.sharedSecrets,
                                            trusteeState.PayloadLength, cells)])
            /\ UNCHANGED spc
       ELSE /\ spc' = "Exited"
            /\ UNCHANGED written
    /\ UNCHANGED <<rpc, peer, pending, received>>
    /\ UNCHANGED <<tpc, connOpen>>
    /\ UNCHANGED otherThanRounds

\* startTrusteeSlave has returned: the handler closes the connection and
\* returns (lines 238-240).
SlaveShutdown ==
    /\ tpc = "Slave"
    /\ spc = "Exited"
    /\ tpc' = "Returned"
    /\ connOpen' = FALSE
    /\ UNCHANGED written
    /\ UNCHANGED lvars
    /\ UNCHANGED otherThanRounds

\* ------------------------------------------------------------------ DC-net
\* The cells of a round: every trustee runs the default branch of
\* startTrusteeSlave, every client encodes its cell, the relay XORs them.

\* Bytes per cell.
DcPayloadLength == 2

\* The payloads a slot owner may send.
DcPayloads == {[k \in 1..DcPayloadLength |-> (7 * k) % ByteBase],
               [k \in 1..DcPayloadLength |-> ByteBase - k]}

\* The long-term key pair of client i.
ClientPrivateKey(i) == i
ClientPublicKey(i) == ModExp(SchnorrG, ClientPrivateKey(i))

\* The TrusteeState of trustee j when its setup is through: the state of
\* initiateTrusteeState with the clients' keys stored.
DcTrusteeState(j) ==
    StoreClientKeys(initiateTrusteeState(j - 1, dcClients, dcTrustees, DcPayloadLength),
                    [i \in 1..dcClients |-> ClientPublicKey(i)]).state

\* The secrets client i shares with the trustees: pub_trustee ^ priv_client.
ClientSharedSecrets(i) ==
    [j \in 1..dcTrustees |-> ModExp(DcTrusteeState(j).PublicKey, ClientPrivateKey(i))]

\* client_encode: the XOR of the next bytes of the stream shared with each
\* trustee, XORed with the payload when the client owns the slot.
ClientEncode(sharedSecrets, payloadLength, cellNo, owner, slotData) ==
    LET pads == TrusteeEncode(sharedSecrets, payloadLength, cellNo)
    IN IF owner THEN XorBytes(pads, slotData) ELSE pads

NoDcCell == [set |-> FALSE, bytes |-> <<>>]

DcnetIdle ==
    /\ dcClients = 1
    /\ dcTrustees = 1
    /\ dcRound = 0
    /\ dcOwner = 0
    /\ dcPayload = <<>>
    /\ trusteeCell = <<NoDcCell>>
    /\ clientCell = <<NoDcCell>>
    /\ dcDecoded = NoDcCell

\* The slot of a round: no owner, or a client with a payload.
DcSlots == {[owner |-> 0, payload |-> Zeros(DcPayloadLength)]}
           \cup [owner : 1..MaxClients, payload : DcPayloads]

DcnetInit ==
    /\ dcClients \in 1..MaxClients
    /\ dcTrustees \in 1..MaxTrustees
    /\ dcRound = 0
    /\ \E slot \in DcSlots : /\ slot.owner <= dcClients
                             /\ dcOwner = slot.owner
                             /\ dcPayload = slot.payload
    /\ trusteeCell = [j \in 1..dcTrustees |-> NoDcCell]
    /\ clientCell = [i \in 1..dcClients |-> NoDcCell]
    /\ dcDecoded = NoDcCell

\* Trustee j produces its next cell (lines 262-270 of startTrusteeSlave).
\* The parties of a round are served in index order.
DcTrusteeEncode(j) ==
    /\ j <= dcTrustees
    /\ ~trusteeCell[j].set
    /\ \A q \in 1..(j - 1) : trusteeCell[q].set
    /\ LET state == DcTrusteeState(j)
       IN trusteeCell' = [trusteeCell EXCEPT ![j] =
              [set |-> TRUE,
               bytes |-> TrusteeEncode(state.sharedSecrets, state.PayloadLength, dcRound)]]
    /\ UNCHANGED <<dcClients, dcTrustees, dcRound, dcOwner, dcPayload, clientCell, dcDecoded>>
    /\ UNCHANGED otherThanDcnet

\* Client i produces its cell of the round.
DcClientEncode(i) ==
    /\ i <= dcClients
    /\ \A j \in 1..dcTrustees : trusteeCell[j].set
    /\ ~clientCell[i].set
    /\ \A q \in 1..(i - 1) : clientCell[q].set
    /\ clientCell' = [clientCell EXCEPT ![i] =
           [set |-> TRUE,
            bytes |-> ClientEncode(ClientSharedSecrets(i), DcPayloadLength, dcRound,
                                   i = dcOwner, dcPayload)]]
    /\ UNCHANGED <<dcClients, dcTrustees, dcRound, dcOwner, dcPayload, trusteeCell, dcDecoded>>
    /\ UNCHANGED otherThanDcnet

\* The relay XORs the cells of all trustees and clients.
DcDecode ==
    /\ \A i \in 1..dcClients : clientCell[i].set
    /\ ~dcDecoded.set
    /\ dcDecoded' = [set |-> TRUE,
                     bytes |-> XorBytes(
                         XorAll([j \in 1..dcTrustees |-> trusteeCell[j].bytes], DcPayloadLength),
                         XorAll([i \in 1..dcClients |-> clientCell[i].bytes], DcPayloadLength))]
    /\ UNCHANGED <<dcClients, dcTrustees, dcRound, dcOwner, dcPayload, trusteeCell, clientCell>>
    /\ UNCHANGED otherThanDcnet

\* The next round begins, with its slot.
DcNextRound(slot) ==
    /\ dcDecoded.set
    /\ dcRound < MaxCells
    /\ slot.owner <= dcClients
    /\ dcRound' = dcRound + 1
    /\ dcOwner' = slot.owner
    /\ dcPayload' = slot.payload
    /\ trusteeCell' = [j \in 1..dcTrustees |-> NoDcCell]
    /\ clientCell' = [i \in 1..dcClients |-> NoDcCell]
    /\ dcDecoded' = NoDcCell
    /\ UNCHANGED <<dcClients, dcTrustees>>
    /\ UNCHANGED otherThanDcnet

\* ----------------------------------------------------- service identities
\* parseDescription and mapIdentities (sda/services/service.go).

\* A roster has up to MaxRoster nodes, at addresses 1..MaxAddresses.
MaxRoster == 5
MaxAddresses == 4

\* The node descriptions of a group file, as ASCII bytes: "relay",
\* "client 0", "client 1", "client -1", "trustee 0", "trustee x", "relay 0"
\* and "client  1" (two spaces).
Descriptions ==
    {<<114, 101, 108, 97, 121>>,
     <<99, 108, 105, 101, 110, 116, 32, 48>>,
     <<99, 108, 105, 101, 110, 116, 32, 49>>,
     <<99, 108, 105, 101, 110, 116, 32, 45, 49>>,
     <<116, 114, 117, 115, 116, 101, 101, 32, 48>>,
     <<116, 114, 117, 115, 116, 101, 101, 32, 120>>,
     <<114, 101, 108, 97, 121, 32, 48>>,
     <<99, 108, 105, 101, 110, 116, 32, 32, 49>>}

RECURSIVE Split(_)
\* strings.Split(description, " ").
Split(description) ==
    IF description = <<>> THEN << <<>> >>
    ELSE LET rest == Split(Tail(description))
         IN IF Head(description) = 32
            THEN << <<>> >> \o rest
            ELSE << <<Head(description)>> \o rest[1] >> \o Tail(rest)

RECURSIVE DigitsValue(_)
\* The number written by decimal digits.
DigitsValue(digits) ==
    IF digits = <<>> THEN 0
    ELSE DigitsValue(SubSeq(digits, 1, Len(digits) - 1)) * 10 + (digits[Len(digits)] - 48)
IsDigits(digits) == digits # <<>> /\ \A k \in 1..Len(digits) : digits[k] \in 48..57
\* strconv.Atoi: decimal digits behind an optional sign.
Atoi(a) ==
    LET signed == a # <<>> /\ a[1] \in {43, 45}
        digits == IF signed THEN Tail(a) ELSE a
    IN IF IsDigits(digits)
       THEN [err |-> FALSE,
             value |-> IF signed /\ a[1] = 45 THEN 0 - DigitsValue(digits)
                       ELSE DigitsValue(digits)]
       ELSE [err |-> TRUE, value |-> 0]

NoIdentity == [err |-> TRUE, Role |-> "", Id |-> 0]
\* parseDescription extracts a PriFiIdentity from a string.
parseDescription(description) ==
    LET desc == Split(description)
    IN IF Len(desc) = 1 /\ desc[1] = <<114, 101, 108, 97, 121>>
       THEN [err |-> FALSE, Role |-> "Relay", Id |-> 0]
       ELSE IF Len(desc) = 2
       THEN LET id == Atoi(desc[2])
            IN IF id.err THEN NoIdentity
               ELSE IF desc[1] = <<99, 108, 105, 101, 110, 116>>
               THEN [err |-> FALSE, Role |-> "Client", Id |-> id.value]
               ELSE IF desc[1] = <<116, 114, 117, 115, 116, 101, 101>>
               THEN [err |-> FALSE, Role |-> "Trustee", Id |-> id.value]
               ELSE NoIdentity
       ELSE NoIdentity

NoNode == [Address |-> 0, Description |-> <<>>]
\* The nodes a roster may list.
Nodes == [Address : 1..MaxAddresses, Description : Descriptions]

RECURSIVE CountRole(_, _, _)
\* The entries of m at the given addresses that have the role: the loop of
\* lines 234-243.
CountRole(m, addresses, role) ==
    IF addresses = {} THEN 0
    ELSE LET a == CHOOSE a \in addresses : TRUE
         IN (IF m[a].Role = role THEN 1 ELSE 0) + CountRole(m, addresses \ {a}, role)

\* A check that asks for a relay, not for one relay.
RolesOkSomeRelay(t, c, r) == t > 0 /\ c > 0 /\ r >= 1

\* "exactly one relay and at least one trustee and client" (line 245).
RolesOk(t, c, r) == t > 0 /\ c > 0 /\ r = 1

ServiceIdle ==
    /\ svcPc = "Idle"
    /\ scanned = 0
    /\ skipped = 0
    /\ identityMap = <<>>
    /\ relayIdentity = NoNode

\* mapIdentities is called (lines 212-217).
ServiceInit ==
    /\ svcPc = "Scan"
    /\ scanned = 0
    /\ skipped = 0
    /\ identityMap = <<>>
    /\ relayIdentity = NoNode

\* One turn of the loop over the roster (lines 218-229), for node si.
ScanNode(si) ==
    /\ svcPc = "Scan"
    /\ scanned < MaxRoster
    /\ scanned' = scanned + 1
    /\ LET id == parseDescription(si.Description)
       IN IF id.err
          THEN /\ skipped' = skipped + 1
               /\ UNCHANGED <<identityMap, relayIdentity>>
          ELSE /\ identityMap' = [a \in DOMAIN identityMap \cup {si.Address} |->
                                     IF a = si.Address THEN [Role |-> id.Role, Id |-> id.Id]
                                     ELSE identityMap[a]]
               /\ relayIdentity' = IF id.Role = "Relay" THEN si ELSE relayIdentity
               /\ UNCHANGED skipped
    /\ UNCHANGED svcPc
    /\ UNCHANGED otherThanService

\* The roster is through: the roles are counted and checked, and the map is
\* returned or log.Fatal ends the process (lines 231-249).
CheckRoles ==
    /\ svcPc = "Scan"
    /\ LET t == CountRole(identityMap, DOMAIN identityMap, "Trustee")
           c == CountRole(identityMap, DOMAIN identityMap, "Client")
           r == CountRole(identityMap, DOMAIN identityMap, "Relay")
       IN svcPc' = IF RolesOk(t, c, r) THEN "Returned" ELSE "Fatal"
    /\ UNCHANGED <<scanned, skipped, identityMap, relayIdentity>>
    /\ UNCHANGED otherThanService

\* ---------------------------------------------------------- specifications

\* No session: the state of the equivocation variables while only the
\* trustee handler runs.
EquivIdle ==
    /\ nClients = 1
    /\ nTrustees = 1
    /\ round = 0
    /\ phase = "idle"
    /\ equiv = [p \in Parties |-> NewEquivocation(p)]
    /\ slotPayload = <<>>
    /\ cell = [i \in Clients |-> NoCell]
    /\ sigma = [j \in Trustees |-> NoSigma]
    /\ decoded = NoDecode
    /\ transcript = <<>>
    /\ seen = [p \in Parties |-> <<>>]
    /\ sealed = [i \in Clients |-> <<>>]

\* Sessions whose relay shows every party the transcript it hashed itself.
\* Any client may claim the slot, and the relay may decode any received
\* payload, as sent or with a bit flipped.
Init == EquivInit /\ TrusteeInit /\ SlaveIdle /\ ServiceIdle /\ DcnetIdle
Next ==
    \/ \E i \in Clients, slotOwner \in BOOLEAN : ClientEncryptPayload(i, slotOwner)
    \/ \E j \in Trustees : TrusteeGetContribution(j)
    \/ \E c \in ReceivedPayloads : RelayDecode(c)
    \/ RelayUpdateHistory
    \/ \E p \in Parties : UpdateHistory(p, transcript)
Spec == Init /\ [][Next]_vars

\* Sessions of honest clients (the slot owner of round r is client
\* (r mod nClients) + 1, the relay decodes the owner's payload as sent) whose
\* relay may show client 1 a transcript other than the one it hashed itself.
SlotOwner == (round % nClients) + 1
NextEquivocation ==
    \/ \E i \in Clients : ClientEncryptPayload(i, i = SlotOwner)
    \/ \E j \in Trustees : TrusteeGetContribution(j)
    \/ RelayDecode(cell[SlotOwner].x)
    \/ RelayUpdateHistory
    \/ \E p \in Parties \ {ClientId(1)} : UpdateHistory(p, transcript)
    \/ \E data \in Payloads : UpdateHistory(ClientId(1), data)
SpecEquivocation == Init /\ [][NextEquivocation]_vars

\* One run of handleConnection on a fresh connection.
TrusteeNext ==
    \/ \E ok \in BOOLEAN, h \in Hellos : ReadHello(ok, h)
    \/ CheckVersion
    \/ SendPubKey
    \/ \E keys \in SeqsUpTo(ClientKeys, MaxHelloClients + 1) : RecvClientPubKeys(keys)
    \/ \E ok \in BOOLEAN, frame \in ShuffleFrames : ReadShuffle(ok, frame)
    \/ \E ok \in BOOLEAN : WriteShuffle(ok)
    \/ Sleep
InitTrustee == TrusteeInit /\ EquivIdle /\ SlaveIdle /\ ServiceIdle /\ DcnetIdle
SpecTrustee == InitTrustee /\ [][TrusteeNext]_vars
\* The handler's goroutine is scheduled as long as it can take a step.
SpecTrusteeLive == SpecTrustee /\ WF_vars(TrusteeNext)

\* Round processing of one trustee after a setup that went through, with a
\* relay that may send data, close its end or break the connection at any
\* time.  Both goroutines are scheduled as long as they can take a step.
ReaderNext ==
    \/ ConnRead
    \/ ReadAgain
SlaveLoopNext ==
    \/ StartSlave
    \/ SlaveReceive
    \/ \E ok \in BOOLEAN : SlaveEncode(ok)
    \/ SlaveShutdown
SlaveNext ==
    \/ ReaderNext
    \/ SlaveLoopNext
    \/ PeerSends
    \/ \E how \in {"eof", "reset"} : PeerCloses(how)
InitSlave ==
    /\ EquivIdle
    /\ SlaveIdle
    /\ ServiceIdle
    /\ DcnetIdle
    /\ \E h \in Hellos, keys \in SeqsUpTo(ClientKeys, MaxHelloClients) :
           /\ VersionMatches(h.version)
           /\ Len(keys) = h.nClients
           /\ SetupDone(h, keys, ShuffleFrame(SchnorrG, keys))
SpecSlave == InitSlave /\ [][SlaveNext]_vars /\ WF_vars(ReaderNext) /\ WF_vars(SlaveLoopNext)

\* mapIdentities on any roster of up to MaxRoster nodes.
ServiceNext ==
    \/ \E si \in Nodes : ScanNode(si)
    \/ CheckRoles
InitService == ServiceInit /\ EquivIdle /\ TrusteeInit /\ SlaveIdle /\ DcnetIdle
SpecService == InitService /\ [][ServiceNext]_vars

\* Rounds of the DC-net of up to MaxClients clients and MaxTrustees trustees
\* whose setup went through.
DcnetNext ==
    \/ \E j \in 1..MaxTrustees : DcTrusteeEncode(j)
    \/ \E i \in 1..MaxClients : DcClientEncode(i)
    \/ DcDecode
    \/ \E slot \in DcSlots : DcNextRound(slot)
InitDcnet == DcnetInit /\ EquivIdle /\ TrusteeInit /\ SlaveIdle /\ ServiceIdle
SpecDcnet == InitDcnet /\ [][DcnetNext]_vars

\* ------------------------------------------------------------------ claims

\* The clients that claimed the slot this round.
Owners == {i \in Clients : cell[i].set /\ cell[i].owner}
TheOwner == CHOOSE i \in Owners : TRUE
HistoryOf(p) == equiv[p].history

\* An honest round, decoded: every client and trustee contributed, exactly
\* one client owned the slot, the relay decoded the owner's payload as sent,
\* and the relay and the clients went through the same transcripts.
HonestRound ==
    /\ decoded.set
    /\ AllContributed
    /\ Cardinality(Owners) = 1
    /\ decoded.input = cell[TheOwner].x
    /\ \A i \in Clients : seen[ClientId(i)] = seen[RelayId]

RECURSIVE SumTo(_, _)
\* f[1] + ... + f[n] over the integers.
SumTo(f, n) == IF n = 0 THEN 0 ELSE SumTo(f, n - 1) + f[n]

\* H_group of the pad of client i and trustee j in this round, as an integer.
PadHash(i, j) == LeValue(PadBytes(round, i, j)) % GroupOrder
\* sigma_i of client i and sigma_j of trustee j, as the specification
\* defines them.
ClientSigma(i) == SumTo([j \in Trustees |-> PadHash(i, j)], nTrustees) % GroupOrder
TrusteeSigma(j) == SumTo([i \in Clients |-> PadHash(i, j)], nClients) % GroupOrder

\* C1: in an honest round the key the relay computes in RelayDecode,
\* (sum of the clients' kappas) - h * (sum of the trustees' sigmas), is the
\* key k_owner under which the slot owner sealed its payload.
C1_RelayKeyIsOwnerKey ==
    HonestRound =>
        /\ decoded.k_bytes = cell[TheOwner].key
        /\ (SumTo([i \in Clients |-> LeValue(cell[i].kappa)], nClients)
            - HistoryOf(RelayId) * SumTo([j \in Trustees |-> LeValue(sigma[j])], nTrustees)
            - LeValue(cell[TheOwner].key)) % GroupOrder = 0

C1_Witness ==
    /\ HonestRound
    /\ nClients >= 2
    /\ nTrustees >= 2
    /\ round >= 1
    /\ HistoryOf(RelayId) # ScalarOne

\* C2: in an honest round, after any number of UpdateHistory calls applied
\* alike at all parties, RelayDecode returns exactly the payload x the slot
\* owner passed to ClientEncryptPayload.
C2_RoundTrip ==
    HonestRound => (~decoded.panicked /\ decoded.message = slotPayload)

C2_Witness ==
    /\ HonestRound
    /\ round >= 1
    /\ slotPayload = <<7>>
    /\ decoded.message = <<7>>

\* C3: from the same previous history, UpdateHistory with two different
\* round transcripts (of the same length or not) yields two different
\* history scalars.
C3_HistoryDependsOnData ==
    \A p \in Parties, q \in Parties :
        (/\ Len(seen[p]) >= 1
         /\ Len(seen[q]) = Len(seen[p])
         /\ SubSeq(seen[p], 1, Len(seen[p]) - 1) = SubSeq(seen[q], 1, Len(seen[q]) - 1)
         /\ seen[p][Len(seen[p])] # seen[q][Len(seen[q])])
        => HistoryOf(p) # HistoryOf(q)

\* C4: when the relay showed client 1 another transcript than the one it
\* hashed itself, that client's history differs from the relay's and the
\* next RelayDecode does not recover the slot owner's payload.
C4_EquivocationDetected ==
    (decoded.set /\ seen[ClientId(1)] # seen[RelayId])
        => (HistoryOf(ClientId(1)) # HistoryOf(RelayId) /\ ~decoded.opened)

\* C5: parties that applied UpdateHistory to the same sequence of round
\* transcripts hold the same history scalar, after every round.
C5_HistoryAgreement ==
    \A p \in Parties, q \in Parties :
        seen[p] = seen[q] => HistoryOf(p) = HistoryOf(q)

C5_Witness ==
    /\ nClients >= 2
    /\ Len(seen[RelayId]) = 2
    /\ seen[ClientId(2)] = seen[RelayId]
    /\ seen[TrusteeId(1)] = seen[RelayId]
    /\ Len(seen[ClientId(1)]) = 2
    /\ seen[ClientId(1)] # seen[RelayId]
    /\ HistoryOf(RelayId) # ScalarOne

\* C6: when authentication fails in RelayDecode the caller can tell: what
\* RelayDecode returns is not something a round whose payload decoded
\* could have returned.
C6_DisruptionFlagged ==
    (decoded.set /\ ~decoded.panicked /\ ~decoded.opened)
        => decoded.message \notin Payloads

\* C7: a client that is not the slot owner returns x unchanged and
\* kappa_i = h * sigma_i; a trustee returns sigma_j, the sum of the hashed
\* pads, whatever its history.
C7_NonOwnerAndTrustee ==
    /\ \A i \in Clients :
           (cell[i].set /\ ~cell[i].owner) =>
               /\ cell[i].x = Raw(slotPayload)
               /\ Len(cell[i].kappa) = ScalarLen
               /\ LeValue(cell[i].kappa)
                      = (HistoryOf(ClientId(i)) * ClientSigma(i)) % GroupOrder
    /\ \A j \in Trustees :
           sigma[j] # NoSigma =>
               /\ Len(sigma[j]) = ScalarLen
               /\ LeValue(sigma[j]) = TrusteeSigma(j)

C7_Witness ==
    /\ round >= 1
    /\ nTrustees >= 2
    /\ \E i \in Clients : cell[i].set /\ ~cell[i].owner /\ HistoryOf(ClientId(i)) # ScalarOne
                          /\ ClientSigma(i) # 0 /\ slotPayload = <<7>>
    /\ \E j \in Trustees : sigma[j] # NoSigma /\ HistoryOf(TrusteeId(j)) # ScalarOne
                           /\ TrusteeSigma(j) # 0

\* C8: every owner call seals under a freshly picked k_i: no key keys two
\* Seals of one instance, and the returned kappa_i is k_i + h * sigma_i for
\* the k_i that keyed the Seal.
C8_FreshOwnerKey ==
    \A i \in Clients :
        /\ \A a \in 1..Len(sealed[i]), b \in 1..Len(sealed[i]) :
               a # b => sealed[i][a] # sealed[i][b]
        /\ (cell[i].set /\ cell[i].owner) =>
               /\ cell[i].key = sealed[i][Len(sealed[i])]
               /\ cell[i].x.tag = <<cell[i].key, cell[i].x.body>>
               /\ LeValue(cell[i].kappa)
                      = (LeValue(cell[i].key) + HistoryOf(ClientId(i)) * ClientSigma(i))
                        % GroupOrder

C8_Witness ==
    \E i \in Clients :
        /\ Len(sealed[i]) = MaxRounds + 1
        /\ cell[i].set
        /\ cell[i].owner
        /\ HistoryOf(ClientId(i)) # ScalarOne

\* C9: the history of a fresh EquivocationProtection is the multiplicative
\* identity and stays so until the first UpdateHistory: round 0 is encoded
\* and decoded under h = 1.
C9_InitialHistoryIsOne ==
    /\ \A p \in Parties :
           seen[p] = <<>> => \A s \in 0..(GroupOrder - 1) : ScalarMul(HistoryOf(p), s) = s
    /\ round = 0 =>
           /\ \A i \in Clients :
                  (cell[i].set /\ ~cell[i].owner) => LeValue(cell[i].kappa) = ClientSigma(i)
           /\ decoded.set =>
                  (SumTo([i \in Clients |-> LeValue(cell[i].kappa)], nClients)
                   - SumTo([j \in Trustees |-> LeValue(sigma[j])], nTrustees)
                   - LeValue(decoded.k_bytes)) % GroupOrder = 0

C9_Witness ==
    /\ round = 0
    /\ HonestRound
    /\ nClients >= 2
    /\ \A p \in Parties : seen[p] = <<>>

\* C10: when the first frame carries another protocol version than the
\* trustee's, the connection is closed and the handler does nothing more:
\* no public key sent, no client keys read, no shared secret, no shuffle.
C10_VersionMismatchCloses ==
    (tpc \notin {"ReadHello", "CheckVersion"} /\ hello.version # LLD_PROTOCOL_VERSION)
        => /\ tpc = "Returned"
           /\ ~connOpen
           /\ written = <<>>
           /\ steps = <<>>
           /\ trusteeState = NoTrusteeState

C10_Witness ==
    /\ tpc = "Returned"
    /\ hello.version = LLD_PROTOCOL_VERSION + 1
    /\ hello.nClients > 0

\* Whether the handler wrote a message of the given kind.
Wrote(kind) == \E k \in 1..Len(written) : written[k].kind = kind

\* C11: once the trustee has written its shuffle result back to the relay,
\* it eventually enters round processing: startTrusteeSlave runs and a
\* ciphertext cell is sent.
C11_EventuallyRoundProcessing ==
    Wrote("Shuffle") ~> (spc # "NotStarted" /\ Wrote("Cell"))

\* The trustee's public key as announced on the connection.
AnnouncedKey == BeValue(SubSeq(written[1].bytes, 9, 8 + PointLen))

\* C12: when the trustee starts to read the shuffle frame it holds, for
\* every client index, a public key and the shared secret
\* pub_client ^ priv_trustee, which is the secret pub_trustee ^ priv_client
\* the client derives from the announced key; when fewer than nClients keys
\* were delivered the handler aborts before the shuffle.
C12_SharedSecrets ==
    /\ tpc \in {"ReadShuffle", "WriteShuffle", "Sleep"} =>
           /\ Len(trusteeState.ClientPublicKeys) = hello.nClients
           /\ Len(trusteeState.sharedSecrets) = hello.nClients
           /\ \A i \in 1..hello.nClients :
                  /\ trusteeState.ClientPublicKeys[i] \in Points
                  /\ \A priv \in 0..(SchnorrQ - 1) :
                         ModExp(SchnorrG, priv) = trusteeState.ClientPublicKeys[i]
                             => trusteeState.sharedSecrets[i] = ModExp(AnnouncedKey, priv)
    /\ (/\ Len(steps) >= 2
        /\ \E i \in 1..hello.nClients : trusteeState.ClientPublicKeys[i] = NoPoint)
           => (tpc = "Panicked" /\ ~connOpen /\ Len(steps) = 2 /\ ~shuffleIn.set)

C12_Witness ==
    /\ tpc = "ReadShuffle"
    /\ hello.nClients = 2
    /\ trusteeState.ClientPublicKeys[1] # trusteeState.ClientPublicKeys[2]
    /\ trusteeState.sharedSecrets[1] # trusteeState.sharedSecrets[2]
    /\ trusteeState.privateKey > 1

\* The length-prefixed field of frame f that starts at offset off (from 0).
FieldAt(f, off) == SubSeq(f, off + 5, off + 4 + BeValue(SubSeq(f, off + 1, off + 4)))
\* The base and the keys a shuffle frame carries, by the frame layout
\* [u32 base_len][base][u32 keys_len][keys].
FrameBase(f) == BeValue(FieldAt(f, 0))
FrameKeys(f) ==
    LET keysBytes == FieldAt(f, 4 + Len(FieldAt(f, 0)))
    IN [k \in 1..(Len(keysBytes) \div PointLen) |->
           BeValue(SubSeq(keysBytes, (k - 1) * PointLen + 1, k * PointLen))]
\* The permutations of 1..n.
PermutationsOf(n) ==
    {pi \in [1..n -> 1..n] : \A a \in 1..n, b \in 1..n : pi[a] = pi[b] => a = b}

\* C13: the shuffle result the trustee sends back is a permutation of
\* re-encryptions of the keys it received: for some scalar beta and some
\* permutation pi, base_out = base_in ^ beta and
\* keys_out[k] = keys_in[pi(k)] ^ beta for every k, with as many keys out as
\* in.
C13_ShuffleIsPermutation ==
    Wrote("Shuffle") =>
        LET out == written[Len(written)].bytes
            n == Len(FrameKeys(shuffleIn.frame))
        IN /\ Len(FrameKeys(out)) = n
           /\ \E beta \in 1..(SchnorrQ - 1), pi \in PermutationsOf(n) :
                  /\ FrameBase(out) = ModExp(FrameBase(shuffleIn.frame), beta)
                  /\ \A k \in 1..n :
                         FrameKeys(out)[k] = ModExp(FrameKeys(shuffleIn.frame)[pi[k]], beta)

C13_Witness ==
    /\ Wrote("Shuffle")
    /\ Len(FrameKeys(shuffleIn.frame)) = 2
    /\ FrameKeys(shuffleIn.frame)[1] # FrameKeys(shuffleIn.frame)[2]
    /\ FrameBase(shuffleIn.frame) # FrameKeys(shuffleIn.frame)[1]
    /\ Len(written[Len(written)].bytes) = 12 + 3 * PointLen + ProofLen

\* The addresses the identity map gives the role.
WithRole(role) == {a \in DOMAIN identityMap : identityMap[a].Role = role}

\* C14: mapIdentities returns its map only when the map holds exactly one
\* relay, at least one client and at least one trustee, whatever the roster
\* (nodes whose description does not parse are skipped, nodes may share an
\* address); otherwise startup fails.
C14_MapOnlyWithAllRoles ==
    LET complete == /\ Cardinality(WithRole("Relay")) = 1
                    /\ Cardinality(WithRole("Client")) >= 1
                    /\ Cardinality(WithRole("Trustee")) >= 1
    IN /\ svcPc = "Returned" => complete
       /\ svcPc = "Fatal" => ~complete
       /\ Cardinality(DOMAIN identityMap) <= scanned - skipped
       /\ DOMAIN identityMap = WithRole("Relay") \cup WithRole("Client") \cup WithRole("Trustee")

C14_Witness ==
    /\ svcPc = "Returned"
    /\ skipped >= 1
    /\ Cardinality(DOMAIN identityMap) < scanned - skipped

\* C15: every client and trustee identity in the service's identity map
\* has a non-negative index that no other identity of its role has.
C15_IdsNonNegativeAndUnique ==
    svcPc = "Returned" =>
        \A role \in {"Client", "Trustee"} :
            \A a \in WithRole(role) :
                /\ identityMap[a].Id >= 0
                /\ \A b \in WithRole(role) : identityMap[a].Id = identityMap[b].Id => a = b

\* C16: when the relay closes the connection during round processing (the
\* trustee's reads return EOF or an error), the trustee's tasks terminate:
\* trusteeConnRead returns and the loop of startTrusteeSlave ends.
C16_TasksTerminateOnClose ==
    (spc # "NotStarted" /\ peer # "open") ~> (rpc = "Returned" /\ spc = "Exited")

SetupSteps == <<"SendPubKey", "RecvClientPubKeys", "ReadShuffle", "WriteShuffle">>

\* C18: the setup steps of one handler happen in a fixed order and none is
\* skipped: the public key is sent only after the version check succeeded,
\* the client keys are read only after that, the shuffle frame is read only
\* after the shared secrets were computed, the shuffle result is written
\* only after the frame was read, and no cell is sent before the shuffle
\* result.
C18_SetupOrder ==
    /\ steps = SubSeq(SetupSteps, 1, Len(steps))
    /\ steps # <<>> => hello.version = LLD_PROTOCOL_VERSION
    /\ Len(steps) >= 1 => (Len(written) >= 1 /\ written[1].kind = "PublicKey")
    /\ Len(steps) >= 3 =>
           /\ trusteeState.set
           /\ \A i \in 1..hello.nClients : trusteeState.sharedSecrets[i] # NoPoint
    /\ Len(steps) >= 4 => (shuffleIn.set /\ Len(written) >= 2 /\ written[2].kind = "Shuffle")
    /\ Len(steps) < 4 => Len(written) <= 1
    /\ \A k \in 1..Len(written) : written[k].kind = "Cell" => k > 2
    /\ tpc \in {"Sleep", "Slave"} => steps = SetupSteps

C18_Witness ==
    /\ tpc = "Sleep"
    /\ steps = SetupSteps
    /\ hello.nClients = 2
    /\ Len(shuffleIn.keys) = 2
    /\ Len(written) = 2

\* C19: the shuffle frame the trustee writes is
\* [u32 base_len][base][u32 keys_len][keys][u32 proof_len][proof] with
\* big-endian lengths, fields that do not overlap and a total length of
\* 12 + base_len + keys_len + proof_len; cut at the offsets the trustee uses
\* for an incoming shuffle frame it gives back the base and key bytes that
\* were written.
C19_ShuffleFrameLayout ==
    Wrote("Shuffle") =>
        LET out == written[Len(written)].bytes
            baseBytes == MarshalPoint(shuffleIn.base)
            keysBytes == MarshalPublicKeyArrayToByteArray(shuffleIn.keys)
            lb == Len(baseBytes)
            lk == Len(keysBytes)
            cut == ParseShuffleFrame(out)
        IN /\ Len(out) = 12 + lb + lk + ProofLen
           /\ SubSeq(out, 1, 4) = <<0, 0, 0, lb>>
           /\ SubSeq(out, 5, 4 + lb) = baseBytes
           /\ SubSeq(out, 5 + lb, 8 + lb) = <<0, 0, 0, lk>>
           /\ SubSeq(out, 9 + lb, 8 + lb + lk) = keysBytes
           /\ SubSeq(out, 9 + lb + lk, 12 + lb + lk) = <<0, 0, 0, ProofLen>>
           /\ SubSeq(out, 13 + lb + lk, Len(out)) = Zeros(ProofLen)
           /\ ~cut.panicked
           /\ cut.baseBytes = baseBytes
           /\ cut.keysBytes = keysBytes

C19_Witness ==
    /\ Wrote("Shuffle")
    /\ Len(shuffleIn.keys) = 2
    /\ shuffleIn.keys[1] # shuffleIn.keys[2]
    /\ shuffleIn.base # shuffleIn.keys[2]
    /\ ParseShuffleFrame(written[Len(written)].bytes).keysSize = 2 * PointLen


\* C20: RelayDecode returns a byte slice for every encrypted payload, one
\* shorter than the 16-byte tag and the empty cell of a round whose payload
\* passed through unencrypted included: it never aborts, and the round can
\* still advance.
C20_RelayDecodeNeverAborts ==
    decoded.set => (~decoded.panicked /\ phase = "update")

\* C21: the history scalar changes only in UpdateHistory:
\* ClientEncryptPayload, TrusteeGetContribution and RelayDecode leave the
\* history of their EquivocationProtection as it was, for owner and
\* non-owner calls and for successful and failed decryption.
C21_HistoryChangesOnlyInUpdateHistory ==
    [][\A p \in Parties :
          equiv'[p].history # equiv[p].history =>
              /\ phase = "update"
              /\ cell' = cell \/ p = RelayId
              /\ sigma' = sigma \/ p = RelayId
              /\ decoded' = decoded \/ p = RelayId
              /\ seen'[p] = Append(seen[p], transcript')]_vars

C21_Witness ==
    /\ round = 1
    /\ \A p \in Parties : equiv[p].history # ScalarOne
    /\ \E i, h \in Clients : cell[i].set /\ cell[i].owner /\ cell[h].set /\ ~cell[h].owner
    /\ \A j \in Trustees : sigma[j] # NoSigma
    /\ decoded.set
    /\ ~decoded.opened
    /\ ~decoded.panicked

\* C22: while it parses the client key vector and the incoming shuffle
\* frame the trustee never indexes outside its buffers: every offset it uses
\* (4 + base_len, 8 + base_len + keys_len) stays within the read buffer and
\* every client key index stays below nClients, or the frame is rejected
\* without a runtime failure.  A handler that panicked on the client keys
\* did so on a missing key, and no frame that was read has an offset beyond
\* the buffer.
C22_ParsingStaysInBounds ==
    /\ (tpc = "Panicked" /\ steps # <<>> /\ steps[Len(steps)] = "RecvClientPubKeys")
           => ~AllKeysPresent(trusteeState)
    /\ shuffleIn.frame # <<>> =>
           LET baseSize == BeValue(Slice(ReadInto(HelloBytes(hello), shuffleIn.frame), 0, 4))
               keysSize == BeValue(Slice(ReadInto(HelloBytes(hello), shuffleIn.frame),
                                         4 + baseSize, 8 + baseSize))
           IN /\ 8 + baseSize <= BufferSize
              /\ 8 + baseSize + keysSize <= BufferSize

\* The keypair of another run of the handler, on the handshake h.
KeyPairOfRun(h) ==
    LET other == initiateTrusteeState(h.trusteeId, h.nClients, h.nTrustees, h.cellSize)
    IN <<other.privateKey, other.PublicKey>>

\* C23: the trustee's keypair is a function of the trustee index of the
\* handshake alone: any other run of the handler that receives the same
\* trusteeId, whatever else its handshake says, derives the same private and
\* public key, and a run that receives another trusteeId derives other keys.
C23_KeyPairDependsOnTrusteeIdOnly ==
    trusteeState.set =>
        \A h \in Hellos :
            /\ h.trusteeId = hello.trusteeId =>
                   KeyPairOfRun(h) = <<trusteeState.privateKey, trusteeState.PublicKey>>
            /\ h.trusteeId # hello.trusteeId =>
                   /\ KeyPairOfRun(h)[1] # trusteeState.privateKey
                   /\ KeyPairOfRun(h)[2] # trusteeState.PublicKey

C23_Witness ==
    /\ trusteeState.set
    /\ hello.trusteeId = 1
    /\ hello.nClients = 2
    /\ written # <<>>
    /\ written[1].bytes = TellPublicKey(LLD_PROTOCOL_VERSION, trusteeState.PublicKey)
    /\ \E h \in Hellos : h.trusteeId = 1 /\ h.nClients # 2
    /\ \E h \in Hellos : h.trusteeId # 1

====
